---- MODULE Spec2Model ----
(***************************************************************************)
(* Model of pcsx2/CDVD/ChdFileReader.cpp: the recursive parent resolution  *)
(* of OpenCHD with its process-wide header cache, the core-file wrapper    *)
(* that decides who closes a FILE stream, and the reader operations        *)
(* Open2, Close2, ParseTOC, ChunkForOffset and ReadChunk.                  *)
(*                                                                         *)
(* libchdr (chd_open_core_file, chd_close, chd_read_header_file,           *)
(* chd_is_matching_parent, chd_get_metadata, chd_read) and the FileSystem  *)
(* helpers are not part of the modelled source file; they are modelled     *)
(* from the engine contract of the specification and from the comments at  *)
(* the call sites.                                                         *)
(***************************************************************************)
EXTENDS Integers, Sequences, FiniteSets, TLC

\* ------------------------------------------------------------------ bounds

\* The source sets MAX_PARENTS to 32 (line 19).  The model scales the cap
\* down so that chains and cycles reach it.
MAX_PARENTS == 2

\* Number of Open2 calls one reader makes in a behaviour.
MaxOpens == 1
\* Open2 calls of a reader that opens, closes and reopens.
MaxCycle == 3

\* Number of times the engine calls the progress callback while it
\* precaches a whole file.
PrecacheCalls == 3

\* ------------------------------------------------------------------- paths

\* A path is a directory, a base name and an extension, each a sequence of
\* characters, so that the case-insensitive comparisons are computed.
Path(d, n, e) == [dir |-> d, name |-> n, ext |-> e]

FileA == Path(<<"d">>, <<"a">>, <<"c", "h", "d">>)
FileB == Path(<<"d">>, <<"b">>, <<"C", "H", "D">>)
FileC == Path(<<"d">>, <<"c">>, <<"c", "h", "d">>)
FileT == Path(<<"d">>, <<"t">>, <<"t", "x", "t">>)
FileM == Path(<<"d">>, <<"m">>, <<"c", "h", "d">>)
\* A container file in another directory, whose name differs from the
\* first only in the case of its letters (a case-sensitive file system).
FileP == Path(<<"D">>, <<"p">>, <<"c", "h", "d">>)

\* The container files whose content varies, the files a directory listing
\* returns (in listing order), and a path that does not exist on disk.
ChdFiles == {FileA, FileB, FileC}
DirListing == <<FileA, FileT, FileB, FileC, FileP>>
OnDisk == {DirListing[i] : i \in DOMAIN DirListing}

tolower(c) ==
    CASE c = "C" -> "c"
      [] c = "H" -> "h"
      [] c = "D" -> "d"
      [] c = "T" -> "t"
      [] c = "X" -> "x"
      [] OTHER -> c

\* StringUtil::compareNoCase: TRUE when the two strings are equal ignoring case.
compareNoCase(a, b) ==
    /\ Len(a) = Len(b)
    /\ \A i \in 1..Len(a) : tolower(a[i]) = tolower(b[i])

\* StringUtil::EndsWithNoCase
EndsWithNoCase(s, suffix) ==
    /\ Len(s) >= Len(suffix)
    /\ \A i \in 1..Len(suffix) :
          tolower(s[Len(s) - Len(suffix) + i]) = tolower(suffix[i])

GetDirectory(p) == p.dir
GetExtension(p) == p.ext

\* FileSystem::FindFiles(parent_dir, "*.*"): the files of that directory.
FindFiles(dir) == SelectSeq(DirListing, LAMBDA p : p.dir = dir)

\* ------------------------------------------------------------ disk contents

\* What a container file holds, as far as parent resolution can tell:
\* its content token, the token of the parent it needs (0: none), and
\* whether the file is sound ("good"), has a valid header but data the
\* engine cannot open ("corrupt"), or a header that cannot be read ("nohdr").
Shas == {1, 2}
FileStates == {"good", "corrupt", "nohdr"}
DiskContents == [sha1 : Shas, parentsha1 : {0} \cup Shas, state : FileStates]
TextContents == [sha1 |-> 1, parentsha1 |-> 0, state |-> "nohdr"]
\* FileP is a sound file without parent, with token 2.
OtherDirContents == [sha1 |-> 2, parentsha1 |-> 0, state |-> "good"]

\* A track metadata string, as the fields sscanf meets in order: a field
\* either converts to a value (the text fields convert to themselves and
\* carry 0 here) or does not convert.
Field(v) == [conv |-> TRUE, v |-> v]
Garbled == [conv |-> FALSE, v |-> 0]
TrackNums == {1, 2}
V2Records ==
    {<<Field(t), Field(0), Field(0), Field(3), Field(1), Field(0), Field(0), Field(2)>> :
        t \in TrackNums}
    \cup {<<Field(1), Field(0), Field(0), Field(3), Garbled>>}
V1Records ==
    {<<Field(t), Field(0), Field(0), Field(4)>> : t \in TrackNums}
    \cup {<<Field(1), Field(0), Garbled>>}

\* The longest metadata table of either tag, and the largest offset asked.
MaxRecords == 2
MaxOffset == 25

SeqsUpTo(S, n) == UNION {[1..k -> S] : k \in 0..n}

\* ------------------------------------------------------------------ state

VARIABLES
    disk,      \* path -> contents of the file (chosen at start, then fixed)
    media,     \* path -> header geometry and track metadata of the file
    s_chd_hash_cache,        \* sequence of <<filename, header>> pairs
    s_chd_hash_cache_mutex,  \* recursive mutex: [owner, count]
    stack,     \* thread -> call stack of OpenCHD invocations
    ret,       \* thread -> value returned by the last OpenCHD invocation
    error,     \* thread -> the Error object handed down by Open2
    streams,   \* FILE streams opened so far: [path, fclose (times closed)]
    chds,      \* engine handles created so far
    rd,        \* thread -> the ChdFileReader object of that thread
    last,      \* thread -> record of the last returned OpenCHD invocation
    out        \* thread -> result of the last reader query

vars == <<disk, media, s_chd_hash_cache, s_chd_hash_cache_mutex, stack, ret,
          error, streams, chds, rd, last, out>>

Threads == {1, 2}

\* -------------------------------------------------- engine (libchdr) model

\* chd_read_header_file: fails on an unreadable header.
chd_read_header_ok(f) == f \in DOMAIN disk /\ disk[f].state # "nohdr"
chd_read_header(f) == [sha1 |-> disk[f].sha1, parentsha1 |-> disk[f].parentsha1]

\* chd_is_matching_parent(header, parent_header)
chd_is_matching_parent(header, parent_header) ==
    header.parentsha1 = parent_header.sha1

\* chd_open_core_file(core_file of f, CHD_OPEN_READ, parent, &chd): the error.
\* A file that names a parent cannot be opened without one.
chd_open_core_file(f, parent) ==
    IF parent = 0 /\ disk[f].parentsha1 # 0 THEN "CHDERR_REQUIRES_PARENT"
    ELSE IF disk[f].state = "good" THEN "CHDERR_NONE"
    ELSE "CHDERR_INVALID_DATA"

\* The handles a handle owns: itself and the chain of parents beneath it.
RECURSIVE Chain(_, _)
Chain(H, h) == IF h = 0 THEN <<>> ELSE <<h>> \o Chain(H, H[h].parent)

\* --------------------------------------------------- ChdCoreFileWrapper

\* ChdCoreFileWrapper(std::FILE* file): m_free_file starts false.
ChdCoreFileWrapper(file) == [m_file |-> file, m_free_file |-> FALSE]

\* SetFileOwner(isOwner)
SetFileOwner(w, isOwner) == [w EXCEPT !.m_free_file = isOwner]

\* ~ChdCoreFileWrapper(), reached through FClose: the streams it fcloses.
WrapperDtor(w) == IF w.m_free_file THEN <<w.m_file>> ELSE <<>>

\* ~ManagedCFilePtr: the streams a managed pointer fcloses when it dies.
ManagedDtor(fp) == IF fp # 0 THEN <<fp>> ELSE <<>>

\* fclose applied once for every occurrence of a stream in ids.
Fclose(S, ids) ==
    [i \in DOMAIN S |->
        [S[i] EXCEPT !.fclose = @ + Cardinality({k \in DOMAIN ids : ids[k] = i})]]

\* chd_close(h): the engine closes the core file of every handle of the
\* chain (FClose deletes the wrapper) and frees the handles.
RECURSIVE ChainDtors(_, _)
ChainDtors(H, c) ==
    IF c = <<>> THEN <<>>
    ELSE WrapperDtor(H[Head(c)].wrapper) \o ChainDtors(H, Tail(c))

chd_close_streams(H, h) == ChainDtors(H, Chain(H, h))
chd_close_handles(H, h) ==
    LET c == Chain(H, h)
        ids == {c[k] : k \in DOMAIN c}
    IN [i \in DOMAIN H |->
          IF i \in ids THEN [H[i] EXCEPT !.closed = @ + 1] ELSE H[i]]

\* ------------------------------------------------------- call-stack helpers

\* The record kept of the last OpenCHD invocation that returned: its result,
\* the return statement taken (why), the parent it held, and whether any
\* invocation of this Open2 met the MAX_PARENTS cap.
NoReturn ==
    [recursion_level |-> 0, filename |-> FileM, chd |-> 0, why |-> "none",
     hmark |-> 0, parent_chd |-> 0, reopened |-> FALSE, capped |-> FALSE]


\* One OpenCHD invocation: its arguments (filename, fp, recursion_level),
\* its locals (header, parent_chd, the iterator it of the cache loop, the
\* position idx of the directory loop, whether hash_cache_lock is held) and
\* where it stands.  hmark remembers how many handles existed when the
\* invocation began, tried the cache positions it took as candidates.
Frame(filename, fp, level, hmark) ==
    [filename |-> filename, fp |-> fp, recursion_level |-> level, pc |-> "open",
     header |-> [sha1 |-> 0, parentsha1 |-> 0], parent_chd |-> 0, it |-> 1,
     idx |-> 0, locked |-> FALSE, hmark |-> hmark, tried |-> <<>>]

Top(t) == stack[t][Len(stack[t])]
At(t, pc) == stack[t] # <<>> /\ Top(t).pc = pc
SetTop(t, fr) == [stack EXCEPT ![t] = [@ EXCEPT ![Len(@)] = fr]]
Pop(t) == [stack EXCEPT ![t] = SubSeq(@, 1, Len(@) - 1)]
Call(t, caller, callee) ==
    [stack EXCEPT ![t] = Append([@ EXCEPT ![Len(@)] = caller], callee)]

\* FileSystem::OpenManagedSharedCFile: a new stream on an existing file.
CanOpen(f) == f \in OnDisk
NewStream(f) == Append(streams, [path |-> f, fclose |-> 0])
NewStreamId == Len(streams) + 1

\* std::recursive_mutex
CanLock(m, t) == m.owner \in {0, t}
Lock(m, t) == [owner |-> t, count |-> m.count + 1]
Unlock(m) == [owner |-> IF m.count = 1 THEN 0 ELSE m.owner, count |-> m.count - 1]

\* Mutant of Return: hash_cache_lock is not released when the invocation
\* returns.
ReturnKeepsLock(t, chd, fpNow, closes, why) ==
    /\ stack' = Pop(t)
    /\ ret' = [ret EXCEPT ![t] = chd]
    /\ streams' = Fclose(streams, closes \o ManagedDtor(fpNow))
    /\ s_chd_hash_cache_mutex' = s_chd_hash_cache_mutex
    /\ last' = [last EXCEPT ![t] =
                  [recursion_level |-> Top(t).recursion_level,
                   filename |-> Top(t).filename, chd |-> chd, why |-> why,
                   hmark |-> Top(t).hmark, parent_chd |-> Top(t).parent_chd,
                   reopened |-> why \in {"ReopenError", "Reopened"},
                   capped |-> last[t].capped \/ why = "TooManyParents"]]

\* The end of an OpenCHD invocation: the frame is popped, the managed
\* pointer fp and hash_cache_lock are destroyed, the result is handed back.
Return(t, chd, fpNow, closes, why) ==
    /\ stack' = Pop(t)
    /\ ret' = [ret EXCEPT ![t] = chd]
    /\ streams' = Fclose(streams, closes \o ManagedDtor(fpNow))
    /\ s_chd_hash_cache_mutex' =
          IF Top(t).locked THEN Unlock(s_chd_hash_cache_mutex)
          ELSE s_chd_hash_cache_mutex
    /\ last' = [last EXCEPT ![t] =
                  [recursion_level |-> Top(t).recursion_level,
                   filename |-> Top(t).filename, chd |-> chd, why |-> why,
                   hmark |-> Top(t).hmark, parent_chd |-> Top(t).parent_chd,
                   reopened |-> why \in {"ReopenError", "Reopened"},
                   capped |-> last[t].capped \/ why = "TooManyParents"]]

\* What the engine releases when chd_open_core_file fails: it closes the
\* core file it was given (FClose deletes the wrapper w) and, having linked
\* the parent into the handle it was building, the chain of that parent.
FailedOpenStreams(w, parent) == WrapperDtor(w) \o chd_close_streams(chds, parent)
FailedOpenHandles(parent) == chd_close_handles(chds, parent)

\* Mutant of Release: the managed pointer keeps the stream it handed over.
ReleaseForgotten(fp) == fp

\* fp.release(): the managed pointer gives the stream up.
Release(fp) == 0

\* A handle the engine returns: the file, the wrapper it keeps as core
\* file, the parent linked beneath it.
NewChd(t, f, w, parent) ==
    Append(chds, [file |-> f, wrapper |-> w, parent |-> parent, closed |-> 0,
                  thread |-> t])

SetError(t, e) == [error EXCEPT ![t] = e]

\* --------------------------------------------------------- OpenCHD, 98-133

\* Mutant of AtCap: the comparison is off by one.
AtCapOffByOne(recursion_level) == recursion_level > MAX_PARENTS

\* Line 118: recursion_level >= MAX_PARENTS
AtCap(recursion_level) == recursion_level >= MAX_PARENTS

\* Lines 101-110: the first engine open succeeds; the wrapper becomes the
\* owner of fp and the handle is returned.
OpenStandalone(t) ==
    /\ At(t, "open")
    /\ LET fr == Top(t)
           core_wrapper == ChdCoreFileWrapper(fr.fp)
       IN /\ chd_open_core_file(fr.filename, 0) = "CHDERR_NONE"
          /\ chds' = NewChd(t, fr.filename, SetFileOwner(core_wrapper, TRUE), 0)
          /\ Return(t, Len(chds) + 1, Release(fr.fp), <<>>, "Standalone")
    /\ UNCHANGED <<disk, media, s_chd_hash_cache, error, rd, out>>

\* Mutant of OpenError: the test of line 111 is lost, the invocation goes on
\* to look for a parent.
OpenErrorFallsThrough(t) ==
    /\ At(t, "open")
    /\ LET fr == Top(t)
           core_wrapper == ChdCoreFileWrapper(fr.fp)
       IN /\ chd_open_core_file(fr.filename, 0)
                \notin {"CHDERR_NONE", "CHDERR_REQUIRES_PARENT"}
          /\ streams' = Fclose(streams, FailedOpenStreams(core_wrapper, 0))
          /\ stack' = SetTop(t, [fr EXCEPT !.pc = "lock",
                                          !.header = chd_read_header(fr.filename)])
    /\ UNCHANGED <<disk, media, s_chd_hash_cache, s_chd_hash_cache_mutex, ret,
                   error, chds, rd, last, out>>

\* Lines 111-116: any error other than CHDERR_REQUIRES_PARENT is reported.
OpenError(t) ==
    /\ At(t, "open")
    /\ LET fr == Top(t)
           core_wrapper == ChdCoreFileWrapper(fr.fp)
       IN /\ chd_open_core_file(fr.filename, 0)
                \notin {"CHDERR_NONE", "CHDERR_REQUIRES_PARENT"}
          /\ error' = SetError(t, "DecodeError")
          /\ Return(t, 0, fr.fp, FailedOpenStreams(core_wrapper, 0), "DecodeError")
    /\ UNCHANGED <<disk, media, s_chd_hash_cache, chds, rd, out>>

\* Lines 118-123: a parent is needed at the deepest allowed level.
OpenTooManyParents(t) ==
    /\ At(t, "open")
    /\ LET fr == Top(t)
           core_wrapper == ChdCoreFileWrapper(fr.fp)
       IN /\ chd_open_core_file(fr.filename, 0) = "CHDERR_REQUIRES_PARENT"
          /\ AtCap(fr.recursion_level)
          /\ error' = SetError(t, "TooManyParents")
          /\ Return(t, 0, fr.fp, FailedOpenStreams(core_wrapper, 0), "TooManyParents")
    /\ UNCHANGED <<disk, media, s_chd_hash_cache, chds, rd, out>>

\* Lines 125-133: the header of the file itself cannot be read.
OpenHeaderError(t) ==
    /\ At(t, "open")
    /\ LET fr == Top(t)
           core_wrapper == ChdCoreFileWrapper(fr.fp)
       IN /\ chd_open_core_file(fr.filename, 0) = "CHDERR_REQUIRES_PARENT"
          /\ ~AtCap(fr.recursion_level)
          /\ ~chd_read_header_ok(fr.filename)
          /\ error' = SetError(t, "DecodeError")
          /\ Return(t, 0, fr.fp, FailedOpenStreams(core_wrapper, 0), "HeaderError")
    /\ UNCHANGED <<disk, media, s_chd_hash_cache, chds, rd, out>>

\* Lines 103-138 on the path that goes on to look for a parent.
OpenRequiresParent(t) ==
    /\ At(t, "open")
    /\ LET fr == Top(t)
           core_wrapper == ChdCoreFileWrapper(fr.fp)
       IN /\ chd_open_core_file(fr.filename, 0) = "CHDERR_REQUIRES_PARENT"
          /\ ~AtCap(fr.recursion_level)
          /\ chd_read_header_ok(fr.filename)
          /\ streams' = Fclose(streams, FailedOpenStreams(core_wrapper, 0))
          /\ stack' = SetTop(t, [fr EXCEPT !.pc = "lock",
                                          !.header = chd_read_header(fr.filename)])
    /\ UNCHANGED <<disk, media, s_chd_hash_cache, s_chd_hash_cache_mutex, ret,
                   error, chds, rd, last, out>>

\* Line 139: hash_cache_lock(s_chd_hash_cache_mutex), held until the
\* invocation returns.
AcquireLock(t) ==
    /\ At(t, "lock")
    /\ CanLock(s_chd_hash_cache_mutex, t)
    /\ s_chd_hash_cache_mutex' = Lock(s_chd_hash_cache_mutex, t)
    /\ stack' = SetTop(t, [Top(t) EXCEPT !.pc = "cache", !.locked = TRUE])
    /\ UNCHANGED <<disk, media, s_chd_hash_cache, ret, error, streams, chds,
                   rd, last, out>>

\* -------------------------------------------------------- OpenCHD, 141-170

ChdExtension == <<"c", "h", "d">>

\* Lines 142-148: the first cache entry, from position i on, that lies in the
\* directory of the file and whose cached header matches; 0 when none does.
RECURSIVE CacheCandidate(_, _, _, _)
CacheCandidate(C, header, parent_dir, i) ==
    IF i > Len(C) THEN 0
    ELSE IF ~compareNoCase(parent_dir, GetDirectory(C[i][1]))
        THEN CacheCandidate(C, header, parent_dir, i + 1)
    ELSE IF ~chd_is_matching_parent(header, C[i][2])
        THEN CacheCandidate(C, header, parent_dir, i + 1)
    ELSE i

\* Mutant of Recheck: the cached header is trusted, the header on disk is
\* not compared.
RecheckTrustsCache(header, f) == CanOpen(f)

\* Lines 152-154: the candidate opens, its header reads and still matches.
Recheck(header, f) ==
    /\ CanOpen(f)
    /\ chd_read_header_ok(f)
    /\ chd_is_matching_parent(header, chd_read_header(f))

\* A stream that is opened and destroyed within the step (parent_fp going
\* out of scope without having been moved).
Probed(f) ==
    IF CanOpen(f) THEN Append(streams, [path |-> f, fclose |-> 1]) ELSE streams

\* Lines 142-171: no cache entry is a candidate.
CacheNone(t) ==
    /\ At(t, "cache")
    /\ LET fr == Top(t)
       IN /\ CacheCandidate(s_chd_hash_cache, fr.header,
                            GetDirectory(fr.filename), fr.it) = 0
          /\ stack' = SetTop(t, [fr EXCEPT !.pc = "scan", !.idx = 1])
    /\ UNCHANGED <<disk, media, s_chd_hash_cache, s_chd_hash_cache_mutex, ret,
                   error, streams, chds, rd, last, out>>

\* Mutant of CacheStale: the break of line 169 is lost, the loop goes on
\* with the entry after the stale one.
CacheStaleContinues(t) ==
    /\ At(t, "cache")
    /\ LET fr == Top(t)
           it == CacheCandidate(s_chd_hash_cache, fr.header,
                                GetDirectory(fr.filename), fr.it)
       IN /\ it # 0
          /\ ~Recheck(fr.header, s_chd_hash_cache[it][1])
          /\ streams' = Probed(s_chd_hash_cache[it][1])
          /\ stack' = SetTop(t, [fr EXCEPT !.it = it + 1, !.tried = Append(@, it)])
    /\ UNCHANGED <<disk, media, s_chd_hash_cache, s_chd_hash_cache_mutex, ret,
                   error, chds, rd, last, out>>

\* Lines 150-170: the candidate no longer matches on disk; the loop breaks.
CacheStale(t) ==
    /\ At(t, "cache")
    /\ LET fr == Top(t)
           it == CacheCandidate(s_chd_hash_cache, fr.header,
                                GetDirectory(fr.filename), fr.it)
       IN /\ it # 0
          /\ ~Recheck(fr.header, s_chd_hash_cache[it][1])
          /\ streams' = Probed(s_chd_hash_cache[it][1])
          /\ stack' = SetTop(t, [fr EXCEPT !.pc = "scan", !.idx = 1, !.it = it,
                                          !.tried = Append(@, it)])
    /\ UNCHANGED <<disk, media, s_chd_hash_cache, s_chd_hash_cache_mutex, ret,
                   error, chds, rd, last, out>>

\* Lines 150-160: the candidate still matches; OpenCHD is called on it.
CacheRecurse(t) ==
    /\ At(t, "cache")
    /\ LET fr == Top(t)
           it == CacheCandidate(s_chd_hash_cache, fr.header,
                                GetDirectory(fr.filename), fr.it)
       IN /\ it # 0
          /\ Recheck(fr.header, s_chd_hash_cache[it][1])
          /\ streams' = NewStream(s_chd_hash_cache[it][1])
          /\ stack' = Call(t, [fr EXCEPT !.pc = "cache_ret", !.it = it,
                                        !.tried = Append(@, it)],
                           Frame(s_chd_hash_cache[it][1], NewStreamId,
                                 fr.recursion_level + 1, Len(chds)))
    /\ UNCHANGED <<disk, media, s_chd_hash_cache, s_chd_hash_cache_mutex, ret,
                   error, chds, rd, last, out>>

\* Mutant of CacheReturn: the test of line 171 is lost, the directory is
\* scanned although the cached candidate gave a parent.
CacheReturnScansAnyway(t) ==
    /\ At(t, "cache_ret")
    /\ stack' = SetTop(t, [Top(t) EXCEPT !.parent_chd = ret[t], !.pc = "scan",
                                         !.idx = 1])
    /\ UNCHANGED <<disk, media, s_chd_hash_cache, s_chd_hash_cache_mutex, ret,
                   error, streams, chds, rd, last, out>>

\* Lines 160-171: the call on the cached candidate has returned; the loop
\* breaks whatever the result.
CacheReturn(t) ==
    /\ At(t, "cache_ret")
    /\ stack' = SetTop(t, [Top(t) EXCEPT
                             !.parent_chd = ret[t],
                             !.pc = IF ret[t] # 0 THEN "reopen" ELSE "scan",
                             !.idx = 1])
    /\ UNCHANGED <<disk, media, s_chd_hash_cache, s_chd_hash_cache_mutex, ret,
                   error, streams, chds, rd, last, out>>

\* -------------------------------------------------------- OpenCHD, 171-206

\* Mutant of CacheUpdate: the search of line 189 is lost, every header read
\* is appended.
CacheUpdateAppends(C, fd, parent_header) == Append(C, <<fd, parent_header>>)

\* Lines 188-193: the entry of fd in the cache is overwritten, or appended.
CacheUpdate(C, fd, parent_header) ==
    IF \E i \in DOMAIN C : C[i][1] = fd
    THEN [i \in DOMAIN C |-> IF C[i][1] = fd THEN <<fd, parent_header>> ELSE C[i]]
    ELSE Append(C, <<fd, parent_header>>)

ScanAt(t) ==
    /\ At(t, "scan")
    /\ Top(t).idx <= Len(FindFiles(GetDirectory(Top(t).filename)))

Fd(t) == FindFiles(GetDirectory(Top(t).filename))[Top(t).idx]

\* Lines 179-180: not a container file by extension.
ScanSkipExtension(t) ==
    /\ ScanAt(t)
    /\ ~EndsWithNoCase(GetExtension(Fd(t)), ChdExtension)
    /\ stack' = SetTop(t, [Top(t) EXCEPT !.idx = @ + 1])
    /\ UNCHANGED <<disk, media, s_chd_hash_cache, s_chd_hash_cache_mutex, ret,
                   error, streams, chds, rd, last, out>>

\* Lines 184-186: the file cannot be opened or its header cannot be read.
ScanSkipUnreadable(t) ==
    /\ ScanAt(t)
    /\ EndsWithNoCase(GetExtension(Fd(t)), ChdExtension)
    /\ ~(CanOpen(Fd(t)) /\ chd_read_header_ok(Fd(t)))
    /\ streams' = Probed(Fd(t))
    /\ stack' = SetTop(t, [Top(t) EXCEPT !.idx = @ + 1])
    /\ UNCHANGED <<disk, media, s_chd_hash_cache, s_chd_hash_cache_mutex, ret,
                   error, chds, rd, last, out>>

\* Mutant of ScanNoMatch: the match test comes first, a file that is no
\* parent is not written to the cache.
ScanNoMatchNoUpdate(t) ==
    /\ ScanAt(t)
    /\ EndsWithNoCase(GetExtension(Fd(t)), ChdExtension)
    /\ CanOpen(Fd(t)) /\ chd_read_header_ok(Fd(t))
    /\ ~chd_is_matching_parent(Top(t).header, chd_read_header(Fd(t)))
    /\ streams' = Probed(Fd(t))
    /\ stack' = SetTop(t, [Top(t) EXCEPT !.idx = @ + 1])
    /\ UNCHANGED <<disk, media, s_chd_hash_cache, s_chd_hash_cache_mutex, ret,
                   error, chds, rd, last, out>>

\* Lines 184-196: the header is cached; the file is no parent of this one.
ScanNoMatch(t) ==
    /\ ScanAt(t)
    /\ EndsWithNoCase(GetExtension(Fd(t)), ChdExtension)
    /\ CanOpen(Fd(t)) /\ chd_read_header_ok(Fd(t))
    /\ s_chd_hash_cache' =
          CacheUpdate(s_chd_hash_cache, Fd(t), chd_read_header(Fd(t)))
    /\ ~chd_is_matching_parent(Top(t).header, chd_read_header(Fd(t)))
    /\ streams' = Probed(Fd(t))
    /\ stack' = SetTop(t, [Top(t) EXCEPT !.idx = @ + 1])
    /\ UNCHANGED <<disk, media, s_chd_hash_cache_mutex, ret, error, chds, rd,
                   last, out>>

\* Lines 184-199: the header is cached; the file matches and is opened.
ScanRecurse(t) ==
    /\ ScanAt(t)
    /\ EndsWithNoCase(GetExtension(Fd(t)), ChdExtension)
    /\ CanOpen(Fd(t)) /\ chd_read_header_ok(Fd(t))
    /\ s_chd_hash_cache' =
          CacheUpdate(s_chd_hash_cache, Fd(t), chd_read_header(Fd(t)))
    /\ chd_is_matching_parent(Top(t).header, chd_read_header(Fd(t)))
    /\ streams' = NewStream(Fd(t))
    /\ stack' = Call(t, [Top(t) EXCEPT !.pc = "scan_ret"],
                     Frame(Fd(t), NewStreamId, Top(t).recursion_level + 1,
                           Len(chds)))
    /\ UNCHANGED <<disk, media, s_chd_hash_cache_mutex, ret, error, chds, rd,
                   last, out>>

\* Mutant of ScanReturn: the result of the call is not tested, the file is
\* re-opened against whatever came back.
ScanReturnUnchecked(t) ==
    /\ At(t, "scan_ret")
    /\ stack' = SetTop(t, [Top(t) EXCEPT !.parent_chd = ret[t], !.pc = "reopen"])
    /\ UNCHANGED <<disk, media, s_chd_hash_cache, s_chd_hash_cache_mutex, ret,
                   error, streams, chds, rd, last, out>>

\* Mutant of ScanReturn: the loop breaks after the first candidate tried,
\* as the cache loop does, whether or not it gave a handle.
ScanReturnStopsOnFailure(t) ==
    /\ At(t, "scan_ret")
    /\ stack' = SetTop(t, [Top(t) EXCEPT
                             !.parent_chd = ret[t],
                             !.pc = IF ret[t] # 0 THEN "reopen" ELSE "scan",
                             !.idx = IF ret[t] # 0 THEN @
                                     ELSE Len(FindFiles(GetDirectory(Top(t).filename))) + 1])
    /\ UNCHANGED <<disk, media, s_chd_hash_cache, s_chd_hash_cache_mutex, ret,
                   error, streams, chds, rd, last, out>>

\* Lines 199-205: the call on the listed candidate has returned; the loop
\* breaks on a handle and goes to the next file otherwise.
ScanReturn(t) ==
    /\ At(t, "scan_ret")
    /\ stack' = SetTop(t, [Top(t) EXCEPT
                             !.parent_chd = ret[t],
                             !.pc = IF ret[t] # 0 THEN "reopen" ELSE "scan",
                             !.idx = IF ret[t] # 0 THEN @ ELSE @ + 1])
    /\ UNCHANGED <<disk, media, s_chd_hash_cache, s_chd_hash_cache_mutex, ret,
                   error, streams, chds, rd, last, out>>

\* -------------------------------------------------------- OpenCHD, 207-229

\* Lines 207-212: the listing is exhausted and there is no parent.
MissingParent(t) ==
    /\ At(t, "scan")
    /\ Top(t).idx > Len(FindFiles(GetDirectory(Top(t).filename)))
    /\ Top(t).parent_chd = 0
    /\ error' = SetError(t, "MissingParent")
    /\ Return(t, 0, Top(t).fp, <<>>, "MissingParent")
    /\ UNCHANGED <<disk, media, s_chd_hash_cache, chds, rd, out>>

\* Lines 214-223: the engine refuses the file even with its parent.
ReopenError(t) ==
    /\ At(t, "reopen")
    /\ LET fr == Top(t)
           core_wrapper == ChdCoreFileWrapper(fr.fp)
       IN /\ chd_open_core_file(fr.filename, fr.parent_chd) # "CHDERR_NONE"
          /\ error' = SetError(t, "DecodeError")
          /\ chds' = FailedOpenHandles(fr.parent_chd)
          /\ Return(t, 0, fr.fp, FailedOpenStreams(core_wrapper, fr.parent_chd),
                    "ReopenError")
    /\ UNCHANGED <<disk, media, s_chd_hash_cache, rd, out>>

\* Lines 214-228: the file opens against its parent.
ReopenDone(t) ==
    /\ At(t, "reopen")
    /\ LET fr == Top(t)
           core_wrapper == ChdCoreFileWrapper(fr.fp)
       IN /\ chd_open_core_file(fr.filename, fr.parent_chd) = "CHDERR_NONE"
          /\ chds' = NewChd(t, fr.filename, SetFileOwner(core_wrapper, TRUE),
                            fr.parent_chd)
          /\ Return(t, Len(chds) + 1, Release(fr.fp), <<>>, "Reopened")
    /\ UNCHANGED <<disk, media, s_chd_hash_cache, error, rd, out>>

\* ------------------------------------------------------ ParseTOC, 338-403

\* std::sscanf on a metadata string with a format of n conversions: the
\* number of fields converted before the first one that does not convert.
RECURSIVE sscanf(_, _, _)
sscanf(str, n, i) ==
    IF i > n \/ i > Len(str) THEN i - 1
    ELSE IF ~str[i].conv THEN i - 1
    ELSE sscanf(str, n, i + 1)

\* chd_get_metadata(ChdFile, tag, search_index, ...): the search_index-th
\* record with that tag (counted from 0), if there is one.
chd_get_metadata_ok(m, tag, search_index) == search_index < Len(m[tag])
chd_get_metadata(m, tag, search_index) == m[tag][search_index + 1]

\* Mutant of Accumulate: the track number is not tested.
AccumulateEveryTrack(total_frames, track_num, frames, pregap_frames, postgap_frames) ==
    total_frames + pregap_frames + frames + postgap_frames

\* Lines 386-393: what one parsed record adds to total_frames.
Accumulate(total_frames, track_num, frames, pregap_frames, postgap_frames) ==
    IF track_num # 1 THEN total_frames
    ELSE total_frames + pregap_frames + frames + postgap_frames

\* The loop of lines 343-394 from search_index on, then lines 396-402.
RECURSIVE ParseTOCFrom(_, _, _, _)
ParseTOCFrom(m, search_index, total_frames, max_found_track) ==
    IF chd_get_metadata_ok(m, "v2", search_index)
    THEN LET str == chd_get_metadata(m, "v2", search_index)
         IN IF sscanf(str, 8, 1) # 8
            THEN [ok |-> FALSE, frames |-> 0, why |-> "invalid"]
            ELSE ParseTOCFrom(m, search_index + 1,
                     Accumulate(total_frames, str[1].v, str[4].v, str[5].v, str[8].v),
                     IF str[1].v = 1 THEN 1 ELSE max_found_track)
    ELSE IF chd_get_metadata_ok(m, "v1", search_index)
    THEN LET str == chd_get_metadata(m, "v1", search_index)
         IN IF sscanf(str, 4, 1) # 4
            THEN [ok |-> FALSE, frames |-> 0, why |-> "invalid"]
            ELSE ParseTOCFrom(m, search_index + 1,
                     Accumulate(total_frames, str[1].v, str[4].v, 0, 0),
                     IF str[1].v = 1 THEN 1 ELSE max_found_track)
    ELSE IF max_found_track < 0
    THEN [ok |-> FALSE, frames |-> 0, why |-> "notracks"]
    ELSE [ok |-> TRUE, frames |-> total_frames, why |-> "ok"]

ParseTOC(m) == ParseTOCFrom(m, 0, 0, -1)

\* Lines 253-262: the size Open2 stores.
FileSize(m) ==
    IF ParseTOC(m).ok THEN ParseTOC(m).frames * m.unitbytes
    ELSE m.unitbytes * m.unitcount

\* ------------------------------------------------------------ ChdFileReader

\* The value of out before any query of the open reader.
NoQuery ==
    [op |-> "none", arg |-> 0, chunk |-> [chunkID |-> 0, offset |-> 0, length |-> 0],
     result |-> 0, chd_read |-> "notcalled",
     \* Precache2: where the call stands, the position the engine reached,
     \* the values given to SetProgressValue, whether IsCancelled answered
     \* true and how many values had been given by then, the engine's
     \* verdict, the value returned, and the reader and Error object as they
     \* were when the call began.
     pc |-> "idle", pos |-> 0, range |-> 0, values |-> <<>>, cancelled |-> FALSE,
     at_cancel |-> 0, cerror |-> "none", ok |-> FALSE, error_before |-> "none",
     before |-> [ChdFile |-> 0, hunk_size |-> 0, file_size |-> 0]]

Targets == ChdFiles \cup {FileM}

\* Close2 (324-331) as called at the head of Open2: what it closes.
Close2Streams(r) == IF r.ChdFile # 0 THEN chd_close_streams(chds, r.ChdFile) ELSE <<>>
Close2Handles(r) == IF r.ChdFile # 0 THEN chd_close_handles(chds, r.ChdFile) ELSE chds

\* Lines 233-239: Open2 on a file that cannot be opened.
Open2NoFile(t, filename) ==
    /\ rd[t].st \in {"closed", "open"}
    /\ rd[t].opens < rd[t].limit /\ filename \in rd[t].may
    /\ ~CanOpen(filename)
    /\ chds' = Close2Handles(rd[t])
    /\ streams' = Fclose(streams, Close2Streams(rd[t]))
    /\ error' = SetError(t, "OpenFailed")
    /\ rd' = [rd EXCEPT ![t] = [@ EXCEPT !.st = "closed", !.opens = @ + 1,
                                        !.m_filename = filename,
                                        !.ChdFile = 0, !.ok = FALSE]]
    /\ UNCHANGED <<disk, media, s_chd_hash_cache, s_chd_hash_cache_mutex,
                   stack, ret, last, out>>

\* Lines 233-241: Open2 up to the call of OpenCHD at recursion level 0.
Open2Start(t, filename) ==
    /\ rd[t].st \in {"closed", "open"}
    /\ rd[t].opens < rd[t].limit /\ filename \in rd[t].may
    /\ CanOpen(filename)
    /\ chds' = Close2Handles(rd[t])
    /\ streams' = Append(Fclose(streams, Close2Streams(rd[t])),
                         [path |-> filename, fclose |-> 0])
    /\ stack' = [stack EXCEPT ![t] = <<Frame(filename, NewStreamId, 0, Len(chds))>>]
    /\ rd' = [rd EXCEPT ![t] = [@ EXCEPT !.st = "opening", !.opens = @ + 1,
                                        !.m_filename = filename,
                                        !.ChdFile = 0]]
    /\ last' = [last EXCEPT ![t] = NoReturn]
    /\ out' = [out EXCEPT ![t] = NoQuery]
    /\ UNCHANGED <<disk, media, s_chd_hash_cache, s_chd_hash_cache_mutex,
                   ret, error>>

\* Lines 241-243: OpenCHD returned nullptr.
Open2Fail(t) ==
    /\ rd[t].st = "opening" /\ stack[t] = <<>>
    /\ ret[t] = 0
    /\ rd' = [rd EXCEPT ![t] = [@ EXCEPT !.st = "closed", !.ChdFile = 0,
                                        !.ok = FALSE]]
    /\ UNCHANGED <<disk, media, s_chd_hash_cache, s_chd_hash_cache_mutex,
                   stack, ret, error, streams, chds, last, out>>

\* Lines 241-264: OpenCHD returned a handle; the sizes are taken from its
\* header and from the TOC.
Open2Done(t) ==
    /\ rd[t].st = "opening" /\ stack[t] = <<>>
    /\ ret[t] # 0
    /\ LET chd_header == media[chds[ret[t]].file]
       IN rd' = [rd EXCEPT ![t] =
                   [@ EXCEPT !.st = "open", !.ChdFile = ret[t], !.ok = TRUE,
                             !.hunk_size = chd_header.hunkbytes,
                             !.m_internalBlockSize = chd_header.unitbytes,
                             !.file_size = FileSize(chd_header)]]
    /\ UNCHANGED <<disk, media, s_chd_hash_cache, s_chd_hash_cache_mutex,
                   stack, ret, error, streams, chds, last, out>>

\* Mutant of Close2: ChdFile is not reset after chd_close.
Close2KeepsHandle(t) ==
    /\ rd[t].st \in {"closed", "open"}
    /\ chds' = Close2Handles(rd[t])
    /\ streams' = Fclose(streams, Close2Streams(rd[t]))
    /\ rd' = [rd EXCEPT ![t] = [@ EXCEPT !.st = "closed"]]
    /\ out' = [out EXCEPT ![t] = [NoQuery EXCEPT !.op = "Close2",
                                                 !.arg = rd[t].ChdFile]]
    /\ UNCHANGED <<disk, media, s_chd_hash_cache, s_chd_hash_cache_mutex,
                   stack, ret, error, last>>

\* Lines 324-331, on an open reader or on a closed one; out remembers the
\* call and the value of ChdFile it found.
Close2(t) ==
    /\ rd[t].st \in {"closed", "open"}
    /\ chds' = Close2Handles(rd[t])
    /\ streams' = Fclose(streams, Close2Streams(rd[t]))
    /\ rd' = [rd EXCEPT ![t] = [@ EXCEPT !.st = "closed", !.ChdFile = 0]]
    /\ out' = [out EXCEPT ![t] = [NoQuery EXCEPT !.op = "Close2",
                                                 !.arg = rd[t].ChdFile]]
    /\ UNCHANGED <<disk, media, s_chd_hash_cache, s_chd_hash_cache_mutex,
                   stack, ret, error, last>>

\* Mutant of ChunkForOffsetResult: the end test is > instead of >=.
ChunkForOffsetPastEnd(r, offset) ==
    IF offset > r.file_size
    THEN [chunkID |-> -1, offset |-> 0, length |-> 0]
    ELSE [chunkID |-> offset \div r.hunk_size,
          offset |-> (offset \div r.hunk_size) * r.hunk_size,
          length |-> r.hunk_size]

\* Lines 293-307
ChunkForOffsetResult(r, offset) ==
    IF offset >= r.file_size
    THEN [chunkID |-> -1, offset |-> 0, length |-> 0]
    ELSE [chunkID |-> offset \div r.hunk_size,
          offset |-> (offset \div r.hunk_size) * r.hunk_size,
          length |-> r.hunk_size]

\* Mutant of ReadChunkResult: the error of chd_read is not looked at.
ReadChunkIgnoresError(r, chunkID, chd_read) ==
    IF chunkID < 0 THEN -1 ELSE r.hunk_size

\* Lines 309-322: the value returned; chd_read is the engine's verdict when
\* it is asked.
ReadChunkResult(r, chunkID, chd_read) ==
    IF chunkID < 0 THEN -1
    ELSE IF chd_read # "CHDERR_NONE" THEN 0
    ELSE r.hunk_size

ReadChunkCallsEngine(chunkID) == ~(chunkID < 0)

ChunkForOffset(t, offset) ==
    /\ rd[t].st = "open"
    /\ out' = [out EXCEPT ![t] =
                 [NoQuery EXCEPT !.op = "ChunkForOffset", !.arg = offset,
                                 !.chunk = ChunkForOffsetResult(rd[t], offset)]]
    /\ UNCHANGED <<disk, media, s_chd_hash_cache, s_chd_hash_cache_mutex,
                   stack, ret, error, streams, chds, rd, last>>

ReadChunk(t, chunkID, chd_read) ==
    /\ rd[t].st = "open"
    /\ out' = [out EXCEPT ![t] =
                 [NoQuery EXCEPT !.op = "ReadChunk", !.arg = chunkID,
                                 !.result = ReadChunkResult(rd[t], chunkID, chd_read),
                                 !.chd_read = IF ReadChunkCallsEngine(chunkID)
                                              THEN chd_read ELSE "notcalled"]]
    /\ UNCHANGED <<disk, media, s_chd_hash_cache, s_chd_hash_cache_mutex,
                   stack, ret, error, streams, chds, rd, last>>

\* ----------------------------------------------------- Precache2, 267-291

\* Line 269: CheckAvailableMemoryForPrecaching fails and fills the Error.
Precache2NoMemory(t) ==
    /\ rd[t].st = "open"
    /\ out' = [out EXCEPT ![t] =
                 [NoQuery EXCEPT !.op = "Precache2", !.pc = "done", !.ok = FALSE,
                     !.error_before = error[t],
                     !.before = [ChdFile |-> rd[t].ChdFile,
                                 hunk_size |-> rd[t].hunk_size,
                                 file_size |-> rd[t].file_size]]]
    /\ error' = SetError(t, "InsufficientMemory")
    /\ UNCHANGED <<disk, media, s_chd_hash_cache, s_chd_hash_cache_mutex,
                   stack, ret, streams, chds, rd, last>>

\* Lines 269-281: the memory check passes, SetProgressRange(100), and the
\* engine starts precaching.
Precache2Start(t) ==
    /\ rd[t].st = "open"
    /\ out' = [out EXCEPT ![t] =
                 [NoQuery EXCEPT !.op = "Precache2", !.pc = "engine", !.range = 100,
                     !.error_before = error[t],
                     !.before = [ChdFile |-> rd[t].ChdFile,
                                 hunk_size |-> rd[t].hunk_size,
                                 file_size |-> rd[t].file_size]]]
    /\ rd' = [rd EXCEPT ![t] = [@ EXCEPT !.st = "precaching"]]
    /\ UNCHANGED <<disk, media, s_chd_hash_cache, s_chd_hash_cache_mutex,
                   stack, ret, error, streams, chds, last>>

\* Line 276-277: the value the callback gives to SetProgressValue.
Percent(pos, total) ==
    LET percent == (pos * 100) \div total
    IN IF percent < 100 THEN percent ELSE 100

\* Mutant of CallbackResult: the sink is not asked, the engine is always
\* told to go on.
CallbackIgnoresCancel(IsCancelled) == TRUE

\* Line 278: return !progress->IsCancelled();
CallbackResult(IsCancelled) == ~IsCancelled

\* Lines 274-279: the engine calls the callback at its next position; the
\* sink answers IsCancelled.  A callback that returns false makes the engine
\* stop.
PrecacheCallback(t, IsCancelled) ==
    /\ rd[t].st = "precaching" /\ out[t].pc = "engine"
    /\ out[t].pos < PrecacheCalls
    /\ out' = [out EXCEPT ![t] =
                 [@ EXCEPT !.pos = @ + 1,
                           !.values = Append(@, Percent(out[t].pos + 1, PrecacheCalls)),
                           !.cancelled = @ \/ IsCancelled,
                           !.at_cancel = IF IsCancelled /\ ~out[t].cancelled
                                         THEN Len(out[t].values) + 1 ELSE @,
                           !.pc = IF CallbackResult(IsCancelled) THEN "engine"
                                  ELSE "stopped"]]
    /\ UNCHANGED <<disk, media, s_chd_hash_cache, s_chd_hash_cache_mutex,
                   stack, ret, error, streams, chds, rd, last>>

\* Lines 281-288: the engine was told to stop; chd_precache_progress
\* returns CHDERR_CANCELLED and Precache2 returns false.
Precache2Cancelled(t) ==
    /\ rd[t].st = "precaching" /\ out[t].pc = "stopped"
    /\ out' = [out EXCEPT ![t] =
                 [@ EXCEPT !.pc = "done", !.cerror = "CHDERR_CANCELLED", !.ok = FALSE]]
    /\ rd' = [rd EXCEPT ![t] = [@ EXCEPT !.st = "open"]]
    /\ UNCHANGED <<disk, media, s_chd_hash_cache, s_chd_hash_cache_mutex,
                   stack, ret, error, streams, chds, last>>

\* Lines 281-288: the engine fails to read the file; the Error is filled.
Precache2ReadError(t) ==
    /\ rd[t].st = "precaching" /\ out[t].pc = "engine"
    /\ out' = [out EXCEPT ![t] =
                 [@ EXCEPT !.pc = "done", !.cerror = "CHDERR_READ_ERROR", !.ok = FALSE]]
    /\ error' = SetError(t, "PrecacheFailed")
    /\ rd' = [rd EXCEPT ![t] = [@ EXCEPT !.st = "open"]]
    /\ UNCHANGED <<disk, media, s_chd_hash_cache, s_chd_hash_cache_mutex,
                   stack, ret, streams, chds, last>>

\* Lines 281-290: the engine reached the end of the file.
Precache2Done(t) ==
    /\ rd[t].st = "precaching" /\ out[t].pc = "engine"
    /\ out[t].pos = PrecacheCalls
    /\ out' = [out EXCEPT ![t] =
                 [@ EXCEPT !.pc = "done", !.cerror = "CHDERR_NONE", !.ok = TRUE]]
    /\ rd' = [rd EXCEPT ![t] = [@ EXCEPT !.st = "open"]]
    /\ UNCHANGED <<disk, media, s_chd_hash_cache, s_chd_hash_cache_mutex,
                   stack, ret, error, streams, chds, last>>

\* --------------------------------------------------------- specifications

\* Geometry and track table every file has while parent resolution is studied.
PlainMedia ==
    [hunkbytes |-> 4, unitbytes |-> 2, unitcount |-> 8,
     v2 |-> <<<<Field(1), Field(0), Field(0), Field(3), Field(0), Field(0),
                Field(0), Field(0)>>>>,
     v1 |-> <<>>]

\* A ChdFileReader as constructed (line 91), with the files its user will
\* ask it to open (may) and how many Open2 calls that user makes (limit).
NewReader(st, may, limit) ==
    [st |-> st, opens |-> 0, m_filename |-> FileM, ChdFile |-> 0, hunk_size |-> 0,
     m_internalBlockSize |-> 0, file_size |-> 0, ok |-> FALSE, may |-> may,
     limit |-> limit]

InitProcess ==
    /\ s_chd_hash_cache_mutex = [owner |-> 0, count |-> 0]
    /\ stack = [t \in Threads |-> <<>>]
    /\ ret = [t \in Threads |-> 0]
    /\ error = [t \in Threads |-> "none"]
    /\ streams = <<>>
    /\ chds = <<>>
    /\ last = [t \in Threads |-> NoReturn]
    /\ out = [t \in Threads |-> NoQuery]

\* The directories studied: FileA carries token 1 (the tokens are
\* interchangeable), every container file names any parent token or none,
\* and at most one file is damaged.
Disks ==
    {[f \in OnDisk |-> IF f = FileT THEN TextContents
                       ELSE IF f = FileP THEN OtherDirContents
                       ELSE c[f]] :
        c \in {d \in [ChdFiles -> DiskContents] :
                 /\ d[FileA].sha1 = 1 /\ d[FileA].state = "good"
                 /\ Cardinality({f \in ChdFiles : d[f].state # "good"}) <= 1}}

\* The cache a process starts an open with: empty, or remembering FileC
\* with the header it had when an earlier open listed the directory (a
\* file with token 2 that named a parent with token 1).
StartCaches ==
    {<<>>, <<<<FileC, [sha1 |-> 2, parentsha1 |-> 1]>>>>}

\* One reader opening files of a directory.
Init ==
    /\ disk \in Disks
    /\ media = [f \in OnDisk |-> PlainMedia]
    /\ s_chd_hash_cache \in StartCaches
    /\ rd = [t \in Threads |->
                NewReader(IF t = 1 THEN "closed" ELSE "off", {FileA, FileB, FileM},
                          MaxOpens)]
    /\ InitProcess

OpenCHD(t) ==
    \/ OpenStandalone(t)
    \/ OpenError(t)
    \/ OpenTooManyParents(t)
    \/ OpenHeaderError(t)
    \/ OpenRequiresParent(t)
    \/ AcquireLock(t)
    \/ CacheNone(t)
    \/ CacheStale(t)
    \/ CacheRecurse(t)
    \/ CacheReturn(t)
    \/ ScanSkipExtension(t)
    \/ ScanSkipUnreadable(t)
    \/ ScanNoMatch(t)
    \/ ScanRecurse(t)
    \/ ScanReturn(t)
    \/ MissingParent(t)
    \/ ReopenError(t)
    \/ ReopenDone(t)

Next ==
    \/ \E t \in Threads, f \in Targets : Open2NoFile(t, f)
    \/ \E t \in Threads, f \in Targets : Open2Start(t, f)
    \/ \E t \in Threads : OpenCHD(t)
    \/ \E t \in Threads : Open2Fail(t)
    \/ \E t \in Threads : Open2Done(t)
    \/ \E t \in Threads : Close2(t)

Spec == Init /\ [][Next]_vars

\* A smaller family of directories: FileA names a parent with token 2,
\* FileB carries token 2 and FileC is a sound file with token 1; what FileB
\* needs (nothing, FileA or FileC, or itself), whether it is damaged and
\* whether FileC needs FileB varies.  FileA and FileB, or FileC and FileB,
\* can be each other's parent, FileB its own.
DisksSmall ==
    {d \in Disks :
        /\ d[FileA] = [sha1 |-> 1, parentsha1 |-> 2, state |-> "good"]
        /\ d[FileB].sha1 = 2
        /\ d[FileC].sha1 = 1 /\ d[FileC].parentsha1 \in {0, 2}
        /\ d[FileC].state = "good"}

\* Two readers, each on its own thread, each opening one file, of two
\* different paths, at the same time.
InitConc ==
    /\ disk \in DisksSmall
    /\ media = [f \in OnDisk |-> PlainMedia]
    /\ s_chd_hash_cache \in StartCaches
    /\ rd = [t \in Threads |->
                NewReader("closed",
                          IF t = 1 THEN {FileA, FileM} ELSE {FileB, FileC}, 1)]
    /\ InitProcess

SpecConc == InitConc /\ [][Next]_vars

\* One reader on the smaller family of directories.  A thread that has been
\* scheduled runs its open to the end: the code of OpenCHD and Open2 has no
\* wait other than the mutex.
InitFair ==
    /\ disk \in DisksSmall
    /\ media = [f \in OnDisk |-> PlainMedia]
    /\ s_chd_hash_cache \in StartCaches
    /\ rd = [t \in Threads |->
                NewReader(IF t = 1 THEN "closed" ELSE "off", Targets, MaxOpens)]
    /\ InitProcess

SpecFair ==
    /\ InitFair
    /\ [][Next]_vars
    /\ \A t \in Threads : WF_vars(OpenCHD(t) \/ Open2Fail(t) \/ Open2Done(t))

\* One reader that opens and closes files of a directory several times over.
InitCycle ==
    /\ disk \in DisksSmall
    /\ media = [f \in OnDisk |-> PlainMedia]
    /\ s_chd_hash_cache \in StartCaches
    /\ rd = [t \in Threads |->
                NewReader(IF t = 1 THEN "closed" ELSE "off", Targets, MaxCycle)]
    /\ InitProcess

SpecCycle == InitCycle /\ [][Next]_vars

\* The caches a process can start an open with after earlier opens: those
\* of StartCaches, or the header of FileP, remembered when a file of its
\* directory was opened, alone or before the stale entry of FileC.
CacheStates ==
    StartCaches
    \cup {<<<<FileP, [sha1 |-> 2, parentsha1 |-> 0]>>>>,
          <<<<FileC, [sha1 |-> 2, parentsha1 |-> 1]>>,
            <<FileP, [sha1 |-> 2, parentsha1 |-> 0]>>>>}

\* One reader opening a file of the directory d once, from any of these
\* caches.
InitCache ==
    /\ disk \in DisksSmall
    /\ media = [f \in OnDisk |-> PlainMedia]
    /\ s_chd_hash_cache \in CacheStates
    /\ rd = [t \in Threads |->
                NewReader(IF t = 1 THEN "closed" ELSE "off", Targets, MaxOpens)]
    /\ InitProcess

SpecCache == InitCache /\ [][Next]_vars

\* One reader opening a sound file without parent whose geometry is fixed
\* (hunks of 3 bytes, units of 2 bytes, 5 units) and whose track metadata
\* is any table, then querying it.
Medias ==
    {[hunkbytes |-> 3, unitbytes |-> 2, unitcount |-> 5, v2 |-> a, v1 |-> b] :
        a \in SeqsUpTo(V2Records, MaxRecords), b \in SeqsUpTo(V1Records, MaxRecords)}

ChunkIDs == -2..2
ChdReadErrors == {"CHDERR_NONE", "CHDERR_READ_ERROR"}

InitReader ==
    /\ disk = [f \in OnDisk |->
                 IF f = FileT THEN TextContents
                 ELSE [sha1 |-> 1, parentsha1 |-> 0, state |-> "good"]]
    /\ media \in {[f \in OnDisk |-> IF f = FileA THEN m ELSE PlainMedia] : m \in Medias}
    /\ s_chd_hash_cache = <<>>
    /\ rd = [t \in Threads |->
                NewReader(IF t = 1 THEN "closed" ELSE "off", {FileA}, MaxOpens)]
    /\ InitProcess

NextReader ==
    \/ \E t \in Threads, f \in Targets : Open2Start(t, f)
    \/ \E t \in Threads : OpenStandalone(t)
    \/ \E t \in Threads : Open2Done(t)
    \/ \E t \in Threads : Close2(t)
    \/ \E t \in Threads, offset \in 0..MaxOffset : ChunkForOffset(t, offset)
    \/ \E t \in Threads, id \in ChunkIDs, e \in ChdReadErrors : ReadChunk(t, id, e)

SpecReader == InitReader /\ [][NextReader]_vars

\* One reader opening a sound file without parent, precaching it any number
\* of times, and querying it.
PrecacheMedias == {m \in Medias : m.v1 = <<>> /\ Len(m.v2) <= 1}

InitPrecache ==
    /\ disk = [f \in OnDisk |->
                 IF f = FileT THEN TextContents
                 ELSE [sha1 |-> 1, parentsha1 |-> 0, state |-> "good"]]
    /\ media \in {[f \in OnDisk |-> IF f = FileA THEN m ELSE PlainMedia] :
                     m \in PrecacheMedias}
    /\ s_chd_hash_cache = <<>>
    /\ rd = [t \in Threads |->
                NewReader(IF t = 1 THEN "closed" ELSE "off", {FileA}, MaxOpens)]
    /\ InitProcess

NextPrecache ==
    \/ \E t \in Threads, f \in Targets : Open2Start(t, f)
    \/ \E t \in Threads : OpenStandalone(t)
    \/ \E t \in Threads : Open2Done(t)
    \/ \E t \in Threads : Precache2NoMemory(t)
    \/ \E t \in Threads : Precache2Start(t)
    \/ \E t \in Threads, c \in BOOLEAN : PrecacheCallback(t, c)
    \/ \E t \in Threads : Precache2Cancelled(t)
    \/ \E t \in Threads : Precache2ReadError(t)
    \/ \E t \in Threads : Precache2Done(t)
    \/ \E t \in Threads, offset \in 0..MaxOffset : ChunkForOffset(t, offset)
    \/ \E t \in Threads, id \in ChunkIDs, e \in ChdReadErrors : ReadChunk(t, id, e)
    \/ \E t \in Threads : Close2(t)

SpecPrecache == InitPrecache /\ [][NextPrecache]_vars

\* ------------------------------------------------------------------ claims

\* The state right after an OpenCHD invocation of thread t has returned and
\* before its caller has gone on.
JustReturned(t) ==
    /\ last[t].why # "none"
    /\ Len(stack[t]) = last[t].recursion_level
    /\ IF stack[t] = <<>> THEN rd[t].st = "opening"
       ELSE Top(t).pc \in {"cache_ret", "scan_ret"}

\* The handles thread t created since the returned invocation began.
OpenedDuringCall(t) ==
    {h \in DOMAIN chds : h > last[t].hmark /\ chds[h].thread = t}

HoldingFrames(s) ==
    UNION {{<<t, i>> : i \in {j \in DOMAIN stack[t] : stack[t][j].fp = s}} :
              t \in Threads}
HoldingWrappers(s) ==
    {h \in DOMAIN chds :
        /\ chds[h].closed = 0
        /\ chds[h].wrapper.m_file = s
        /\ chds[h].wrapper.m_free_file}

\* C2: every stream is closed exactly once on every path: it is open exactly
\* while one holder (the managed pointer of an invocation, or the wrapper of
\* an open handle whose SetFileOwner(true) was called) has it, never has two
\* holders, and is never fclosed twice.
C2_StreamsClosedOnce ==
    \A s \in DOMAIN streams :
        LET holders == Cardinality(HoldingFrames(s)) + Cardinality(HoldingWrappers(s))
        IN /\ streams[s].fclose <= 1
           /\ holders <= 1
           /\ streams[s].fclose = 0 <=> holders = 1

\* C2 witness: a failed re-open has returned; the stream of the child was
\* closed by its managed pointer and the stream of the parent by its wrapper.
C2_Witness ==
    \E t \in Threads :
        /\ JustReturned(t) /\ last[t].why = "ReopenError"
        /\ Len(streams) >= 2
        /\ \A s \in DOMAIN streams :
              streams[s].fclose = 1 \/ HoldingFrames(s) # {}
        /\ \E s \in DOMAIN streams :
              streams[s].fclose = 1 /\ streams[s].path = last[t].filename

\* An Open2 call of thread t has returned (and the reader was not reopened).
Open2Returned(t) == rd[t].st \in {"closed", "open"} /\ rd[t].opens > 0

\* Every CHD file of the directory is one the engine decodes.
AllSound == \A f \in ChdFiles : disk[f].state = "good"

\* C3: when the invocation at recursion level MAX_PARENTS still gets
\* RequiresParent and the top-level open fails, in a directory of sound
\* files, the error reported to the caller of open is TooManyParents.
C3_TooManyParentsReported ==
    \A t \in Threads :
        (Open2Returned(t) /\ last[t].capped /\ ~rd[t].ok /\ AllSound) =>
            error[t] = "TooManyParents"

\* The files of the directory that a header-reading scan accepts as parent
\* of f.
MatchingCandidates(f) ==
    {g \in ChdFiles :
        /\ chd_read_header_ok(g)
        /\ chd_is_matching_parent(chd_read_header(f), chd_read_header(g))}

\* The case of C4: f needs a parent, its only matching candidate g has a
\* valid header and fails the engine open with an error other than
\* RequiresParent.
CorruptOnlyParent(f) ==
    /\ f \in ChdFiles
    /\ disk[f].parentsha1 # 0 /\ disk[f].state = "good"
    /\ \E g \in ChdFiles :
          /\ MatchingCandidates(f) = {g}
          /\ disk[g].state = "corrupt" /\ disk[g].parentsha1 = 0

\* C4: opening a child whose only matching parent candidate has a valid
\* header but fails the engine open surfaces the engine's DecodeError.
C4_DecodeErrorSurfaced ==
    \A t \in Threads :
        (Open2Returned(t) /\ CorruptOnlyParent(rd[t].m_filename)) =>
            (~rd[t].ok /\ error[t] = "DecodeError")

\* C7: an invocation that ends without a parent fails with MissingParent and
\* never attempted the re-open; the re-open is attempted only with a parent
\* handle this invocation obtained from a successful OpenCHD call, still
\* open, of a file whose header matches.
C7_ReopenOnlyWithParent ==
    \A t \in Threads :
        /\ \A i \in 1..Len(stack[t]) :
              stack[t][i].pc = "reopen" =>
                  /\ stack[t][i].parent_chd \in DOMAIN chds
                  /\ stack[t][i].parent_chd > stack[t][i].hmark
                  /\ chds[stack[t][i].parent_chd].closed = 0
                  /\ chd_is_matching_parent(stack[t][i].header,
                        chd_read_header(chds[stack[t][i].parent_chd].file))
        /\ JustReturned(t) =>
              /\ last[t].reopened => last[t].parent_chd \in DOMAIN chds
              /\ (last[t].parent_chd = 0
                    /\ last[t].why \notin {"Standalone", "DecodeError",
                                           "TooManyParents", "HeaderError"})
                 => (last[t].why = "MissingParent" /\ last[t].chd = 0
                       /\ error[t] = "MissingParent")
              /\ last[t].why = "MissingParent" =>
                    (last[t].parent_chd = 0 /\ ~last[t].reopened)

\* C7 witness: a nested invocation has failed with MissingParent after a
\* candidate call of its own had hit the cap.
C7_Witness ==
    \E t \in Threads :
        /\ JustReturned(t) /\ last[t].why = "MissingParent"
        /\ last[t].recursion_level > 0
        /\ last[t].capped

\* C5: no OpenCHD invocation runs at a recursion level above MAX_PARENTS
\* (the invocations of a call stack sit at levels 0, 1, 2, ... in order), and
\* every top-level open that has started comes to an end, whatever the
\* parent relation of the directory (cyclic and self-parent files included).
LevelBound ==
    \A t \in Threads :
        /\ Len(stack[t]) <= MAX_PARENTS + 1
        /\ \A i \in 1..Len(stack[t]) :
              /\ stack[t][i].recursion_level = i - 1
              /\ stack[t][i].recursion_level <= MAX_PARENTS

C5_BoundedAndTerminates ==
    /\ []LevelBound
    /\ \A t \in Threads : (rd[t].st = "opening") ~> (rd[t].st # "opening")

\* C5 witness: a file that is its own parent is being opened at recursion
\* level MAX_PARENTS, beneath invocations for the same file.
C5_Witness ==
    \E t \in Threads :
        /\ Len(stack[t]) = MAX_PARENTS + 1
        /\ Top(t).recursion_level = MAX_PARENTS
        /\ disk[Top(t).filename].parentsha1 = disk[Top(t).filename].sha1
        /\ stack[t][1].filename = Top(t).filename

\* C6: the header cache never holds two entries for the same path, under any
\* sequence and interleaving of opens.
C6_OneEntryPerPath ==
    \A i, j \in DOMAIN s_chd_hash_cache :
        s_chd_hash_cache[i][1] = s_chd_hash_cache[j][1] => i = j

\* C6 witness: the entry the cache started with for FileC (an older header)
\* now holds the header on disk, in its old place, after both threads have
\* listed the directory.
C6_Witness ==
    /\ Len(s_chd_hash_cache) = 3
    /\ s_chd_hash_cache[1] = <<FileC, chd_read_header(FileC)>>
    /\ disk[FileC].parentsha1 # 1
    /\ \A t \in Threads :
          /\ rd[t].opens = 1 /\ rd[t].st # "opening"
          /\ last[t].why \in {"MissingParent", "Reopened", "ReopenError"}


\* ------------------------------------------------- claims about the reader

Opened(t) == rd[t].st = "open"

\* C8: ChunkForOffset(o) returns chunk id -1 exactly when o >= file_size;
\* for 0 <= o < file_size the id is the hunk containing o, the offset is
\* id * hunk_size and the length is hunk_size, so offset <= o < offset + length.
C8_ChunkForOffset ==
    \A t \in Threads :
        out[t].op = "ChunkForOffset" =>
            LET o == out[t].arg
                c == out[t].chunk
                r == rd[t]
            IN /\ (c.chunkID = -1) <=> (o >= r.file_size)
               /\ o < r.file_size =>
                    /\ c.chunkID >= 0
                    /\ c.chunkID * r.hunk_size <= o
                    /\ o < (c.chunkID + 1) * r.hunk_size
                    /\ c.offset = c.chunkID * r.hunk_size
                    /\ c.length = r.hunk_size
                    /\ c.offset <= o /\ o < c.offset + c.length

\* An offset strictly inside a hunk that is not the first one was asked.
C8_Witness ==
    \E t \in Threads :
        /\ out[t].op = "ChunkForOffset"
        /\ out[t].arg < rd[t].file_size
        /\ out[t].chunk.chunkID >= 1
        /\ out[t].chunk.offset < out[t].arg

\* C9 as stated: a negative chunk id yields 0 without the engine being
\* called, and a failed decompression yields a value that is neither 0 nor
\* hunk_size.
C9_NegativeIdReturnsZero ==
    \A t \in Threads :
        out[t].op = "ReadChunk" =>
            /\ out[t].arg < 0 =>
                 out[t].result = 0 /\ out[t].chd_read = "notcalled"
            /\ (out[t].arg >= 0 /\ out[t].chd_read # "CHDERR_NONE") =>
                 out[t].result # 0 /\ out[t].result # rd[t].hunk_size

\* C9: a negative chunk id yields -1 without the engine being called; a
\* failed decompression yields 0, which differs from -1 and from the result
\* of a successful read, hunk_size.
C9_ReadChunkResults ==
    \A t \in Threads :
        out[t].op = "ReadChunk" =>
            /\ out[t].arg < 0 =>
                 out[t].result = -1 /\ out[t].chd_read = "notcalled"
            /\ (out[t].arg >= 0 /\ out[t].chd_read # "CHDERR_NONE") =>
                 /\ out[t].result = 0
                 /\ out[t].result # -1
                 /\ out[t].result # rd[t].hunk_size
            /\ (out[t].arg >= 0 /\ out[t].chd_read = "CHDERR_NONE") =>
                 out[t].result = rd[t].hunk_size

\* ReadChunk was called with a negative id on an open reader.
C9_Witness ==
    \E t \in Threads :
        /\ out[t].op = "ReadChunk"
        /\ out[t].arg < 0
        /\ out[t].result = -1

\* The track table as a reader of the claim sees it: one record per index,
\* the 8-field one if the index has one, else the 4-field one.
Max(a, b) == IF a > b THEN a ELSE b
TableLen(m) == Max(Len(m.v2), Len(m.v1))
RecordAt(m, i) ==
    IF i <= Len(m.v2) THEN [new |-> TRUE, str |-> m.v2[i]]
    ELSE [new |-> FALSE, str |-> m.v1[i]]
WellFormed(r) ==
    LET n == IF r.new THEN 8 ELSE 4
    IN Len(r.str) >= n /\ \A k \in 1..n : r.str[k].conv
IsTrack1(r) == WellFormed(r) /\ r.str[1].v = 1
RecordFrames(r) ==
    IF r.new THEN r.str[5].v + r.str[4].v + r.str[8].v ELSE r.str[4].v

RECURSIVE SumFrames(_, _)
SumFrames(m, I) ==
    IF I = {} THEN 0
    ELSE LET i == CHOOSE x \in I : TRUE
         IN RecordFrames(RecordAt(m, i)) + SumFrames(m, I \ {i})

Track1Records(m) == {i \in 1..TableLen(m) : IsTrack1(RecordAt(m, i))}
Track1Frames(m) == SumFrames(m, Track1Records(m))

\* C10: after a successful Open2 the size is the sum over the
\* track-1 records times unitbytes whenever the table has a track-1 record,
\* and unitcount * unitbytes only when it has none.
C10_SumWheneverTrack1 ==
    \A t \in Threads :
        Opened(t) =>
            LET m == media[rd[t].m_filename]
            IN IF Track1Records(m) # {}
               THEN rd[t].file_size = Track1Frames(m) * m.unitbytes
               ELSE rd[t].file_size = m.unitcount * m.unitbytes

\* What the code computes in place of C10 as stated: after a successful
\* Open2 the size is the sum of pregap + frames +
\* postgap over the track-1 records times unitbytes when every record of the
\* table is well formed and one of them is a track-1 record (8-field records
\* shadow 4-field ones at the same index, 4-field ones count without gaps,
\* other tracks add nothing); otherwise it is unitcount * unitbytes.
C10_FileSize ==
    \A t \in Threads :
        Opened(t) =>
            LET m == media[rd[t].m_filename]
            IN IF /\ \A i \in 1..TableLen(m) : WellFormed(RecordAt(m, i))
                  /\ Track1Records(m) # {}
               THEN rd[t].file_size = Track1Frames(m) * m.unitbytes
               ELSE rd[t].file_size = m.unitcount * m.unitbytes

\* A file was opened whose table has an 8-field record shadowing a 4-field
\* one, a 4-field record beyond it, and a size that comes from the sum.
C10_Witness ==
    \E t \in Threads :
        /\ Opened(t)
        /\ LET m == media[rd[t].m_filename]
           IN /\ Len(m.v2) > 0 /\ Len(m.v1) > Len(m.v2)
              /\ \A i \in 1..TableLen(m) : WellFormed(RecordAt(m, i))
              /\ Track1Records(m) # {}
              /\ rd[t].file_size # m.unitcount * m.unitbytes


\* The table of m holds a record that does not parse to its field count.
HasMalformed(m) == \E i \in 1..TableLen(m) : ~WellFormed(RecordAt(m, i))

\* C11: a metadata record that is present but does not parse to its field
\* count makes the open fail with CorruptMetadata reported to its caller,
\* instead of an open that succeeds with the header-derived size.
C11_CorruptMetadataReported ==
    \A t \in Threads :
        (Open2Returned(t) /\ rd[t].m_filename \in OnDisk
            /\ HasMalformed(media[rd[t].m_filename])) =>
                (~rd[t].ok /\ error[t] = "CorruptMetadata")


\* C12: once IsCancelled has answered true in a callback, the engine is told
\* to stop and no further progress value is given; Precache2 then returns
\* false on CHDERR_CANCELLED with the Error object as it was, and the reader
\* keeps its handle, hunk_size and file_size and is open for queries.  Every
\* other failure of Precache2 fills the Error object.
C12_CancelStopsPrecache ==
    \A t \in Threads :
        out[t].op = "Precache2" =>
            /\ out[t].cancelled =>
                  /\ out[t].pc \in {"stopped", "done"}
                  /\ Len(out[t].values) = out[t].at_cancel
            /\ (out[t].pc = "done" /\ out[t].cancelled) =>
                  /\ ~out[t].ok /\ out[t].cerror = "CHDERR_CANCELLED"
                  /\ error[t] = out[t].error_before
                  /\ rd[t].st # "precaching"
                  /\ rd[t].st = "open" =>
                        /\ rd[t].ChdFile = out[t].before.ChdFile
                        /\ rd[t].ChdFile # 0 /\ chds[rd[t].ChdFile].closed = 0
                        /\ rd[t].hunk_size = out[t].before.hunk_size
                        /\ rd[t].file_size = out[t].before.file_size
            /\ (out[t].pc = "done" /\ ~out[t].ok /\ ~out[t].cancelled) =>
                  error[t] \in {"InsufficientMemory", "PrecacheFailed"}

\* A precache was cancelled in its second callback, after an earlier
\* precache of the same reader had failed, and has returned.
C12_Witness ==
    \E t \in Threads :
        /\ out[t].op = "Precache2" /\ out[t].pc = "done"
        /\ out[t].cancelled /\ Len(out[t].values) = 2
        /\ out[t].error_before # "none"
        /\ rd[t].st = "open"


\* ------------------------------------------- claims about parent resolution

\* C13: an invocation is running on a candidate only if the candidate's
\* header on disk, read by the caller in the step that called it, is
\* parent-compatible with the caller's header; a cache entry whose cached
\* header matches but whose file no longer does is never opened as parent.
C13_FreshHeaderMatches ==
    \A t \in Threads :
        \A i \in 2..Len(stack[t]) :
            LET caller == stack[t][i - 1]
                f == stack[t][i].filename
            IN /\ caller.pc \in {"cache_ret", "scan_ret"}
               /\ CanOpen(f) /\ chd_read_header_ok(f)
               /\ chd_is_matching_parent(caller.header, chd_read_header(f))

\* An invocation has just left the cache loop on an entry whose cached
\* header matches and whose header on disk does not; it opened no parent.
C13_Witness ==
    \E t \in Threads :
        /\ At(t, "scan") /\ Top(t).idx = 1 /\ Top(t).parent_chd = 0
        /\ LET it == CacheCandidate(s_chd_hash_cache, Top(t).header,
                                    GetDirectory(Top(t).filename), 1)
           IN /\ it # 0
              /\ chd_read_header_ok(s_chd_hash_cache[it][1])
              /\ ~chd_is_matching_parent(Top(t).header,
                                         chd_read_header(s_chd_hash_cache[it][1]))
        /\ \A h \in DOMAIN chds : h > Top(t).hmark => chds[h].closed > 0


\* Entry k of cache C lies in directory dir and its cached header is
\* parent-compatible with header.
IsCandidate(C, header, dir, k) ==
    /\ compareNoCase(dir, GetDirectory(C[k][1]))
    /\ chd_is_matching_parent(header, C[k][2])

TriedAtMostOne ==
    \A t \in Threads :
        \A i \in DOMAIN stack[t] :
            /\ Len(stack[t][i].tried) <= 1
            /\ stack[t][i].tried # <<>> => stack[t][i].pc # "cache"

TriesFirstCandidate ==
    \A t \in Threads :
        \A i \in DOMAIN stack[t] \cap DOMAIN stack'[t] :
            stack'[t][i].tried # stack[t][i].tried =>
                LET fr == stack[t][i]
                    k == stack'[t][i].tried[Len(stack'[t][i].tried)]
                    dir == GetDirectory(fr.filename)
                IN /\ fr.tried = <<>>
                   /\ k \in DOMAIN s_chd_hash_cache
                   /\ IsCandidate(s_chd_hash_cache, fr.header, dir, k)
                   /\ \A j \in 1..(k - 1) :
                         ~IsCandidate(s_chd_hash_cache, fr.header, dir, j)

\* C14: an invocation takes at most one cache entry as candidate, the first
\* one in cache order that lies in its directory and whose cached header is
\* parent-compatible, and once it has taken one it is never in the cache
\* loop again.
C14_OneCacheCandidate == []TriedAtMostOne /\ [][TriesFirstCandidate]_vars

\* An invocation has taken its one cache candidate and is past the cache
\* loop while the cache holds a later entry that is a candidate too.
C14_Witness ==
    \E t \in Threads :
        \E i \in DOMAIN stack[t] :
            /\ stack[t][i].tried # <<>>
            /\ stack[t][i].pc \in {"scan", "reopen"}
            /\ \E j \in DOMAIN s_chd_hash_cache :
                  /\ j > stack[t][i].tried[1]
                  /\ IsCandidate(s_chd_hash_cache, stack[t][i].header,
                                 GetDirectory(stack[t][i].filename), j)


\* The step of thread t out of an invocation that has just begun and whose
\* first engine open does not ask for a parent.
FirstOpenDecides(t) ==
    /\ At(t, "open")
    /\ chd_open_core_file(Top(t).filename, 0) # "CHDERR_REQUIRES_PARENT"
    /\ stack'[t] # stack[t]

ReturnsAtOnce(t) ==
    /\ stack'[t] = SubSeq(stack[t], 1, Len(stack[t]) - 1)
    /\ (ret'[t] # 0) <=> (chd_open_core_file(Top(t).filename, 0) = "CHDERR_NONE")
    /\ ret'[t] # 0 => (ret'[t] = Len(chds') /\ chds'[ret'[t]].file = Top(t).filename
                          /\ chds'[ret'[t]].parent = 0)
    /\ ret'[t] = 0 => error'[t] = "DecodeError"
    /\ s_chd_hash_cache_mutex' = s_chd_hash_cache_mutex
    /\ ~Top(t).locked
    /\ s_chd_hash_cache' = s_chd_hash_cache
    /\ Top(t).idx = 0 /\ Top(t).tried = <<>>
    /\ Len(streams') = Len(streams)

\* C15: when the first engine open of a path succeeds, or fails with an
\* error other than RequiresParent, the invocation returns at once with that
\* result: it does not take the cache lock, leaves the cache as it was,
\* lists no directory and opens no other file.
C15_FirstOpenReturns ==
    [][\A t \in Threads : FirstOpenDecides(t) => ReturnsAtOnce(t)]_vars

\* A nested invocation has returned at once with the engine's error while
\* its caller holds the cache lock and the cache is not empty.
C15_Witness ==
    \E t \in Threads :
        /\ JustReturned(t) /\ last[t].why = "DecodeError"
        /\ last[t].recursion_level > 0
        /\ s_chd_hash_cache_mutex.owner = t
        /\ s_chd_hash_cache # <<>>


\* The header the cache holds for path f, as a set (empty when f has no
\* entry).
Cached(C, f) == {C[k][2] : k \in {j \in DOMAIN C : C[j][1] = f}}

HasChdExtension(f) ==
    LET e == GetExtension(f)
    IN Len(e) = 3 /\ tolower(e[1]) = "c" /\ tolower(e[2]) = "h" /\ tolower(e[3]) = "d"

\* The files of its listing that invocation fr has dealt with: those before
\* idx, and the one at idx while the call on it is running or has just
\* returned.
ScannedBy(fr) ==
    LET files == FindFiles(GetDirectory(fr.filename))
    IN {files[j] : j \in {k \in DOMAIN files :
                            k < fr.idx \/ (k = fr.idx /\ fr.pc = "scan_ret")}}

ScannedFilesAreCached ==
    /\ \A k \in DOMAIN s_chd_hash_cache : HasChdExtension(s_chd_hash_cache[k][1])
    /\ \A t \in Threads :
          \A i \in DOMAIN stack[t] :
              stack[t][i].idx > 0 =>
                  \A f \in ScannedBy(stack[t][i]) :
                      (HasChdExtension(f) /\ chd_read_header_ok(f)) =>
                          Cached(s_chd_hash_cache, f) = {chd_read_header(f)}

OnlyReadHeadersAreCached ==
    \A f \in OnDisk \cup {FileM} :
        Cached(s_chd_hash_cache', f) # Cached(s_chd_hash_cache, f) =>
            /\ HasChdExtension(f)
            /\ f \in OnDisk /\ chd_read_header_ok(f)
            /\ Cached(s_chd_hash_cache', f) = {chd_read_header(f)}

\* C16: every file of the listing with the container extension (in any
\* case) whose header was read is in the cache with that header from the
\* step that read it, before the match test and any recursion, matching or
\* not; files without the extension and files whose header cannot be read
\* are never written, so every cache path carries the extension.
C16_ScanFillsCache == []ScannedFilesAreCached /\ [][OnlyReadHeadersAreCached]_vars

\* A scan is past the file with the upper-case extension, which is no parent
\* of the file being opened and is in the cache, and past the text file,
\* which is not.
C16_Witness ==
    \E t \in Threads :
        /\ At(t, "scan") /\ Top(t).idx = 4
        /\ Cached(s_chd_hash_cache, FileB) = {chd_read_header(FileB)}
        /\ ~chd_is_matching_parent(Top(t).header, chd_read_header(FileB))
        /\ Cached(s_chd_hash_cache, FileT) = {}


\* An invocation that holds a parent does nothing but re-open.
ParentEndsSearch ==
    \A t \in Threads :
        \A i \in DOMAIN stack[t] :
            stack[t][i].parent_chd # 0 => stack[t][i].pc = "reopen"

\* What a step of the running invocation of thread t may do to its scan.
ScanInOrder(t) ==
    LET n == Len(stack[t])
        fr == stack[t][n]
        files == FindFiles(GetDirectory(fr.filename))
    IN (n > 0 /\ stack'[t] # stack[t]) =>
        /\ fr.pc = "reopen" =>
              /\ Len(stack'[t]) = n - 1
              /\ s_chd_hash_cache' = s_chd_hash_cache
              /\ Len(streams') = Len(streams)
        /\ (fr.pc = "cache_ret" /\ ret[t] # 0) =>
              /\ Len(stack'[t]) = n
              /\ stack'[t][n].pc = "reopen" /\ stack'[t][n].parent_chd = ret[t]
        /\ (fr.pc = "scan_ret" /\ ret[t] # 0) =>
              /\ Len(stack'[t]) = n
              /\ stack'[t][n].pc = "reopen" /\ stack'[t][n].parent_chd = ret[t]
              /\ stack'[t][n].idx = fr.idx
        /\ (fr.pc = "scan_ret" /\ ret[t] = 0) =>
              /\ Len(stack'[t]) = n
              /\ stack'[t][n].pc = "scan" /\ stack'[t][n].idx = fr.idx + 1
        /\ (fr.pc = "scan" /\ Len(stack'[t]) >= n) =>
              /\ fr.idx \in DOMAIN files
              /\ \A f \in OnDisk :
                    Cached(s_chd_hash_cache', f) # Cached(s_chd_hash_cache, f)
                        => f = files[fr.idx]
              /\ \A k \in DOMAIN streams' \ DOMAIN streams :
                    streams'[k].path = files[fr.idx]
              /\ IF Len(stack'[t]) = n + 1
                 THEN /\ stack'[t][n + 1].filename = files[fr.idx]
                      /\ stack'[t][n].idx = fr.idx /\ stack'[t][n].pc = "scan_ret"
                 ELSE stack'[t][n].idx = fr.idx + 1 /\ stack'[t][n].pc = "scan"

\* C17: the directory scan takes the files in listing order, goes on to the
\* next file after a matching candidate whose OpenCHD call failed, and stops
\* at the first candidate whose call gave a handle: from then on the
\* invocation opens, reads and caches no file; it does not scan at all when
\* the cached candidate gave a handle.
C17_ScanStopsAtFirstSuccess ==
    []ParentEndsSearch /\ [][\A t \in Threads : ScanInOrder(t)]_vars

\* An invocation re-opens against the last file of the listing after the
\* matching candidate listed before it had failed.
C17_Witness ==
    \E t \in Threads :
        /\ At(t, "reopen") /\ Top(t).idx = 4 /\ Top(t).tried = <<>>
        /\ chd_read_header_ok(FileB)
        /\ chd_is_matching_parent(Top(t).header, chd_read_header(FileB))
        /\ chds[Top(t).parent_chd].file = FileC


\* ------------------------------------------------ claims about concurrency

\* The acquisitions of the cache lock that the invocations of thread t hold.
Acquisitions(t) == Cardinality({i \in DOMAIN stack[t] : stack[t][i].locked})

LockDiscipline ==
    /\ s_chd_hash_cache_mutex.count =
          IF s_chd_hash_cache_mutex.owner = 0 THEN 0
          ELSE Acquisitions(s_chd_hash_cache_mutex.owner)
    /\ (s_chd_hash_cache_mutex.owner = 0) <=> (s_chd_hash_cache_mutex.count = 0)
    /\ \A t \in Threads :
          /\ t # s_chd_hash_cache_mutex.owner => Acquisitions(t) = 0
          /\ \A i \in DOMAIN stack[t] :
                stack[t][i].pc \in {"cache", "cache_ret", "scan", "scan_ret", "reopen"}
                    => (stack[t][i].locked /\ s_chd_hash_cache_mutex.owner = t)
    /\ (\A t \in Threads : stack[t] = <<>>) =>
          s_chd_hash_cache_mutex = [owner |-> 0, count |-> 0]

\* A thread whose open is under way can take a step, or is waiting for a
\* lock that another thread holds and that thread can take a step.
NoDeadlock ==
    (\E t \in Threads : rd[t].st = "opening") =>
        ENABLED (\E t \in Threads : OpenCHD(t) \/ Open2Fail(t) \/ Open2Done(t))

NoSelfBlock ==
    \A t \in Threads :
        (At(t, "lock") /\ s_chd_hash_cache_mutex.owner = t) => ENABLED AcquireLock(t)

CacheWrittenUnderLock ==
    s_chd_hash_cache' # s_chd_hash_cache =>
        \E t \in Threads :
            /\ s_chd_hash_cache_mutex.owner = t
            /\ s_chd_hash_cache_mutex'.owner = t
            /\ stack'[t] # stack[t]
            /\ \A u \in Threads \ {t} : stack'[u] = stack[u]

\* C18: under any interleaving of opens of different paths the cache is
\* read and written only by the thread holding the cache lock, an invocation
\* that recurses with the lock held is not blocked by its own acquisition,
\* every invocation releases on each return exactly what it acquired, no
\* open deadlocks, and the lock is free once all opens have returned.
C18_LockDiscipline ==
    [](LockDiscipline /\ NoDeadlock /\ NoSelfBlock) /\ [][CacheWrittenUnderLock]_vars

\* One thread holds the lock twice, through a recursion, while the other
\* stands before the lock.
C18_Witness ==
    /\ s_chd_hash_cache_mutex.owner = 1
    /\ s_chd_hash_cache_mutex.count >= 2
    /\ At(2, "lock")


\* ------------------------------------------- claims about Open2 and Close2

\* The engine handles that have been opened and not closed.
Live == {h \in DOMAIN chds : chds[h].closed = 0}

\* The handles that chd_close(h) closes: h and the parents linked to it.
ChainSet(h) ==
    IF h = 0 THEN {}
    ELSE LET c == Chain(chds, h) IN {c[k] : k \in DOMAIN c}

\* The live handles that no other handle has as its parent.
LiveRoots == {h \in Live : \A g \in DOMAIN chds : chds[g].parent # h}

\* The length of chds when the Open2 call under way began its OpenCHD.
OpenMark(t) == IF stack[t] # <<>> THEN stack[t][1].hmark ELSE last[t].hmark

ReaderOwnsOneHandle ==
    /\ \A h \in DOMAIN chds : chds[h].closed <= 1
    /\ Cardinality(LiveRoots) <= 1
    /\ rd[1].st = "closed" => (rd[1].ChdFile = 0 /\ Live = {})
    /\ rd[1].st = "open" => (rd[1].ChdFile # 0 /\ Live = ChainSet(rd[1].ChdFile))
    /\ rd[1].st = "opening" =>
          /\ rd[1].ChdFile = 0
          /\ \A h \in DOMAIN chds : h <= OpenMark(1) => chds[h].closed = 1

ClosedReaderClosesNothing ==
    (out'[1] # out[1] /\ out'[1].op = "Close2" /\ out'[1].arg = 0) =>
        (chds' = chds /\ streams' = streams /\ rd'[1].ChdFile = 0)

\* C19: over any sequence of Open2 and Close2 calls the reader owns at most
\* one engine handle, every handle it obtained is closed exactly once, Open2
\* closes the handle held before it opens, Close2 on a closed reader closes
\* nothing, and after a failed Open2 the reader holds no handle.
C19_OneHandleClosedOnce ==
    []ReaderOwnsOneHandle /\ [][ClosedReaderClosesNothing]_vars

\* An Open2 succeeded, a later Open2 failed, and Close2 was then called on
\* the closed reader.
C19_Witness ==
    /\ rd[1].opens >= 2 /\ rd[1].st = "closed" /\ ~rd[1].ok
    /\ \E h \in DOMAIN chds : chds[h].closed = 1
    /\ out[1].op = "Close2" /\ out[1].arg = 0


\* ------------------------------------------- claims about cache independence

\* Whether OpenCHD(f, recursion_level) returns a handle when the cache is
\* empty at every cache lookup: the parent is then found by the directory
\* scan alone.  The result depends on the files on disk only.
RECURSIVE ScanOpens(_, _)
ScanOpens(f, recursion_level) ==
    IF ~CanOpen(f) THEN FALSE
    ELSE IF chd_open_core_file(f, 0) = "CHDERR_NONE" THEN TRUE
    ELSE IF chd_open_core_file(f, 0) # "CHDERR_REQUIRES_PARENT" THEN FALSE
    ELSE IF AtCap(recursion_level) \/ ~chd_read_header_ok(f) THEN FALSE
    ELSE LET files == FindFiles(GetDirectory(f))
             someParent == 1
         IN /\ \E i \in DOMAIN files :
                  /\ EndsWithNoCase(GetExtension(files[i]), ChdExtension)
                  /\ chd_read_header_ok(files[i])
                  /\ chd_is_matching_parent(chd_read_header(f),
                                            chd_read_header(files[i]))
                  /\ ScanOpens(files[i], recursion_level + 1)
            /\ chd_open_core_file(f, someParent) = "CHDERR_NONE"

\* The cache holds entries of the directory of f only.
SameDirectoryCache(f) ==
    \A k \in DOMAIN s_chd_hash_cache :
        GetDirectory(s_chd_hash_cache[k][1]) = GetDirectory(f)

\* C20: whether a top-level open succeeds does not depend on the cache it
\* started with: from every cache the outcome is the one the files on disk
\* give, which is the outcome of the open that starts with an empty cache.
C20_OutcomeIgnoresCache ==
    Open2Returned(1) => (rd[1].ok <=> ScanOpens(rd[1].m_filename, 0))

\* What the code guarantees in place of C20: the outcome is the same from
\* all caches that hold entries of the directory of the file only (the
\* empty cache among them).
C20_SameDirectoryCaches ==
    (Open2Returned(1) /\ SameDirectoryCache(rd[1].m_filename)) =>
        (rd[1].ok <=> ScanOpens(rd[1].m_filename, 0))

====
